---------------------------- MODULE Spec2Model ----------------------------
(***************************************************************************)
(* Model of the detection post-processing and tracking pipeline of the     *)
(* multimodal agent: VisionModule::detect (decode + NMS),                  *)
(* SimpleTracker::updateTracks and the frame loop of main.                 *)
(*                                                                         *)
(* Numbers.  Scores are held in hundredths (0.25 is 25).  Tensor           *)
(* coordinates and pixel coordinates are integers.  Float expressions of   *)
(* the source are evaluated exactly where they are exact for the values    *)
(* used, and by an emulation of IEEE single precision where they round     *)
(* (the box smoothing of updateTracks).                                    *)
(***************************************************************************)
EXTENDS Integers, Sequences, FiniteSets, TLC

(***************************************************************************)
(* Program constants.                                                      *)
(***************************************************************************)
INPUT_WIDTH == 640
INPUT_HEIGHT == 640
CONF_THRESH == 25
NMS_THRESH == 40
MAX_MISSED_FRAMES == 5
\* cap.set(CAP_PROP_FRAME_WIDTH / HEIGHT): the size of the frames captured
FrameCols == 1280
FrameRows == 720
\* the size of the class label table, as the bound check before the
\* emission of a result states it
NumLabels == 80

Max(a, b) == IF a >= b THEN a ELSE b
Min(a, b) == IF a <= b THEN a ELSE b

(***************************************************************************)
(* IEEE single precision, for 0.7f * old + 0.3f * new.                     *)
(* A non-negative real below 2048 that is a multiple of 2^-25 is held as   *)
(* <<hi, lo>> = hi * 2^-12 + lo * 2^-25 with 0 <= lo < 8192, which keeps   *)
(* every intermediate below 2^31.                                          *)
(*   0.7f = 23488102 * 2^-25 = (2867 * 8192 + 1638) * 2^-25                *)
(*   0.3f = 10066330 * 2^-25 = (1228 * 8192 + 6554) * 2^-25                *)
(***************************************************************************)
Pow2(n) == 2 ^ n

RECURSIVE BitLen(_)
BitLen(n) == IF n = 0 THEN 0 ELSE 1 + BitLen(n \div 2)

FxNorm(hi, lo) == <<hi + lo \div 8192, lo % 8192>>

\* the exact product of the float constant (ch * 8192 + cl) * 2^-25 and the
\* integer v
FxMulConst(ch, cl, v) == FxNorm(ch * v, cl * v)

FxAdd(a, b) == FxNorm(a[1] + b[1], a[2] + b[2])

\* round to nearest, ties to even, to a 24 bit significand
\* a with its s lowest bits rounded away: q is a without them, r the bits
FxRoundTo(q, r, s) ==
    IF r > Pow2(s - 1) \/ (r = Pow2(s - 1) /\ q % 2 = 1)
    THEN <<(q + 1) \div Pow2(13 - s), ((q + 1) % Pow2(13 - s)) * Pow2(s)>>
    ELSE <<q \div Pow2(13 - s), (q % Pow2(13 - s)) * Pow2(s)>>

FxRoundBits(a, s) ==
    IF s <= 0 THEN a
    ELSE FxRoundTo(a[1] * Pow2(13 - s) + a[2] \div Pow2(s), a[2] % Pow2(s), s)

FxRound(a) == FxRoundBits(a, BitLen(a[1]) - 11)

\* static_cast<int> of a non-negative value
FxTrunc(a) == a[1] \div 4096

\* static_cast<int>(0.7f * old + 0.3f * new), old and new non-negative ints.
\* The source leaves the contraction of the expression to the compiler: a
\* build without fused multiply-add rounds both products and the sum; a
\* build that contracts evaluates fma(0.7f, old, 0.3f * new), which rounds
\* the second product and the sum only.
SmoothStrict(old, new) ==
    FxTrunc(FxRound(FxAdd(FxRound(FxMulConst(2867, 1638, old)),
                          FxRound(FxMulConst(1228, 6554, new)))))

SmoothFused(old, new) ==
    FxTrunc(FxRound(FxAdd(FxMulConst(2867, 1638, old),
                          FxRound(FxMulConst(1228, 6554, new)))))

\* a variant that converts each product to int before the sum
SmoothTruncatesTerms(fused, old, new) ==
    FxTrunc(FxRound(FxMulConst(2867, 1638, old)))
        + FxTrunc(FxRound(FxMulConst(1228, 6554, new)))

Smooth(fused, old, new) ==
    IF fused THEN SmoothFused(old, new) ELSE SmoothStrict(old, new)

(***************************************************************************)
(* cv::Rect                                                                *)
(***************************************************************************)
Rect(x, y, w, h) == [x |-> x, y |-> y, width |-> w, height |-> h]

Area(r) == r.width * r.height

\* cv::Rect operator& : the intersection, the empty Rect() when the two do
\* not overlap
RectFrom(x1, y1, x2, y2) ==
    IF x2 - x1 <= 0 \/ y2 - y1 <= 0 THEN Rect(0, 0, 0, 0)
    ELSE Rect(x1, y1, x2 - x1, y2 - y1)

RectAnd(a, b) ==
    RectFrom(Max(a.x, b.x), Max(a.y, b.y),
             Min(a.x + a.width, b.x + b.width),
             Min(a.y + a.height, b.y + b.height))

(***************************************************************************)
(* Float quotients.  A positive float is held normalised as <<m, e>>, the  *)
(* value m * 2^e with 2^23 <= m < 2^24; zero is <<0, 0>>.                  *)
(***************************************************************************)
FZero == <<0, 0>>

\* long division of rem / den, rem < den < 2^21: m collects the quotient bits
\* and e counts them, until m has 24 bits.  A step takes 8, 4, 2 or 1 bits
\* at once, as many as keep m below 2^24
DivStep(rem, den, m, e, k) ==
    <<(rem * Pow2(k)) % den, m * Pow2(k) + (rem * Pow2(k)) \div den, e - k>>

RECURSIVE DivBits(_, _, _, _)
DivNext(den, st) == DivBits(st[1], den, st[2], st[3])

DivBits(rem, den, m, e) ==
    IF m >= 8388608 THEN <<m, e, rem>>
    ELSE IF m < 65536 THEN DivNext(den, DivStep(rem, den, m, e, 8))
    ELSE IF m < 1048576 THEN DivNext(den, DivStep(rem, den, m, e, 4))
    ELSE IF m < 4194304 THEN DivNext(den, DivStep(rem, den, m, e, 2))
    ELSE DivNext(den, DivStep(rem, den, m, e, 1))

\* <<m, e>> with m of 24 or 25 bits, normalised
FNorm(m, e) == IF m = 16777216 THEN <<8388608, e + 1>> ELSE <<m, e>>

\* d = <<m, e, rem>> of DivBits rounded to nearest, ties to even
FRoundQuotient(d, den) ==
    IF 2 * d[3] > den \/ (2 * d[3] = den /\ d[1] % 2 = 1)
    THEN FNorm(d[1] + 1, d[2])
    ELSE <<d[1], d[2]>>

FloatDiv(num, den) ==
    IF num = 0 THEN FZero
    ELSE FRoundQuotient(DivBits(num % den, den, num \div den, 0), den)

\* a > b for two floats
FGt(a, b) ==
    IF a[1] = 0 THEN FALSE
    ELSE IF b[1] = 0 THEN TRUE
    ELSE a[2] > b[2] \/ (a[2] = b[2] /\ a[1] > b[1])

\* iou() of visionmodule.cpp and SimpleTracker::calculateIOU, which are the
\* same function: inter / uni as a float, 0 when the union is empty
IouOf(inter, uni) == IF uni > 0 THEN FloatDiv(inter, uni) ELSE FZero

iou(a, b) == IouOf(Area(RectAnd(a, b)), Area(a) + Area(b) - Area(RectAnd(a, b)))

calculateIOU(a, b) == iou(a, b)

(***************************************************************************)
(* SimpleTracker (main.cpp).  A Detection is [label, score, box]; a         *)
(* TrackedObject is [box, label, confidence, missedFrames, id];             *)
(* trackedObjects is the std::map, a function on the ids it holds.          *)
(***************************************************************************)
\* IOU_THRESHOLD = 0.3f
IOU_THRESHOLD == FloatDiv(3, 10)

Detection(label, score, box) == [label |-> label, score |-> score, box |-> box]

\* the ids of a std::map in iteration order: ascending
RECURSIVE SortedIds(_)
SortedIds(S) ==
    IF S = {} THEN <<>>
    ELSE LET m == CHOOSE k \in S : \A j \in S : k <= j
         IN  <<m>> \o SortedIds(S \ {m})

\* a variant that lets a track take a detection another track has consumed
EligibleIgnoringMatched(matched, det, track) == det.label = track.label

\* line 43: the detections the inner loop does not skip
Eligible(matched, det, track) == ~matched /\ det.label = track.label

\* lines 39-50: the index of the best match of a track among newDetections
\* from index i on, 0 for the -1 of the source
RECURSIVE BestMatchFrom(_, _, _, _, _, _)
\* lines 45-49, v being the iou of the track and detection i
\* a variant that takes the first detection above the threshold
BestMatchWithFirstFit(track, newDetections, matched, i, bestIOU, bestMatch, v) ==
    IF FGt(v, IOU_THRESHOLD) /\ bestMatch = 0
    THEN BestMatchFrom(track, newDetections, matched, i + 1, v, i)
    ELSE BestMatchFrom(track, newDetections, matched, i + 1, bestIOU, bestMatch)

BestMatchWith(track, newDetections, matched, i, bestIOU, bestMatch, v) ==
    IF FGt(v, IOU_THRESHOLD) /\ FGt(v, bestIOU)
    THEN BestMatchFrom(track, newDetections, matched, i + 1, v, i)
    ELSE BestMatchFrom(track, newDetections, matched, i + 1, bestIOU, bestMatch)

BestMatchFrom(track, newDetections, matched, i, bestIOU, bestMatch) ==
    IF i > Len(newDetections) THEN bestMatch
    ELSE IF ~Eligible(matched[i], newDetections[i], track)
         THEN BestMatchFrom(track, newDetections, matched, i + 1, bestIOU, bestMatch)
    ELSE BestMatchWith(track, newDetections, matched, i, bestIOU, bestMatch,
                       calculateIOU(track.box, newDetections[i].box))

\* a variant that keeps the miss counter of a matched track
MatchedTrackKeepsMisses(fused, track, det) ==
    [track EXCEPT
        !.box = Rect(Smooth(fused, track.box.x, det.box.x),
                     Smooth(fused, track.box.y, det.box.y),
                     Smooth(fused, track.box.width, det.box.width),
                     Smooth(fused, track.box.height, det.box.height)),
        !.confidence = det.score]

\* a variant that smooths the position and takes the size as detected
MatchedTrackPositionOnly(fused, track, det) ==
    [track EXCEPT
        !.box = Rect(Smooth(fused, track.box.x, det.box.x),
                     Smooth(fused, track.box.y, det.box.y),
                     det.box.width, det.box.height),
        !.confidence = det.score,
        !.missedFrames = 0]

\* a variant that keeps the confidence of a matched track
MatchedTrackKeepsConfidence(fused, track, det) ==
    [track EXCEPT
        !.box = Rect(Smooth(fused, track.box.x, det.box.x),
                     Smooth(fused, track.box.y, det.box.y),
                     Smooth(fused, track.box.width, det.box.width),
                     Smooth(fused, track.box.height, det.box.height)),
        !.missedFrames = 0]

\* lines 52-62: a matched track after the match
MatchedTrack(fused, track, det) ==
    [track EXCEPT
        !.box = Rect(Smooth(fused, track.box.x, det.box.x),
                     Smooth(fused, track.box.y, det.box.y),
                     Smooth(fused, track.box.width, det.box.width),
                     Smooth(fused, track.box.height, det.box.height)),
        !.confidence = det.score,
        !.missedFrames = 0]

\* lines 35-66: the loop over the existing tracks.  st is [tracks, matched,
\* out, claims]; claims lists the <<track id, detection index>> pairs of the
\* matches in the order they are made
\* lines 52-65: the state after track id, now t2, has taken detection best
AfterMatch(st, id, t2, best) ==
    [tracks  |-> [st.tracks EXCEPT ![id] = t2],
     matched |-> [st.matched EXCEPT ![best] = TRUE],
     out     |-> Append(st.out, Detection(t2.label, t2.confidence, t2.box)),
     claims  |-> Append(st.claims, <<id, best>>)]

\* a variant that emits an unmatched track with its last box
TrackStepReemits(fused, newDetections, st, id, aged, best) ==
    IF best = 0
    THEN [st EXCEPT !.tracks[id] = aged,
                    !.out = Append(@, Detection(aged.label, aged.confidence, aged.box))]
    ELSE AfterMatch(st, id, MatchedTrack(fused, aged, newDetections[best]), best)

\* a variant that counts the miss on a copy of an unmatched track
TrackStepForgetsMiss(fused, newDetections, st, id, aged, best) ==
    IF best = 0 THEN st
    ELSE AfterMatch(st, id, MatchedTrack(fused, aged, newDetections[best]), best)

\* a variant that clears the confidence of an unmatched track
TrackStepFadesUnmatched(fused, newDetections, st, id, aged, best) ==
    IF best = 0 THEN [st EXCEPT !.tracks[id] = [aged EXCEPT !.confidence = 0]]
    ELSE AfterMatch(st, id, MatchedTrack(fused, aged, newDetections[best]), best)

\* lines 36-65: one track; aged is the track with its miss counted, best its
\* best match
TrackStep(fused, newDetections, st, id, aged, best) ==
    IF best = 0 THEN [st EXCEPT !.tracks[id] = aged]
    ELSE AfterMatch(st, id, MatchedTrack(fused, aged, newDetections[best]), best)

\* a variant that looks for a match only for the tracks seen in the last
\* call
TrackAgedSkipsStale(fused, newDetections, st, id, aged) ==
    TrackStep(fused, newDetections, st, id, aged,
              IF aged.missedFrames > 1 THEN 0
              ELSE BestMatchFrom(aged, newDetections, st.matched, 1, FZero, 0))

TrackAged(fused, newDetections, st, id, aged) ==
    TrackStep(fused, newDetections, st, id, aged,
              BestMatchFrom(aged, newDetections, st.matched, 1, FZero, 0))

RECURSIVE TrackLoop(_, _, _, _)
TrackLoop(fused, ids, newDetections, st) ==
    IF ids = <<>> THEN st
    ELSE TrackLoop(fused, Tail(ids), newDetections,
                   TrackAged(fused, newDetections, st, Head(ids),
                             [st.tracks[Head(ids)] EXCEPT !.missedFrames = @ + 1]))

\* a variant that evicts at the threshold
RemoveLostAtThreshold(tracks) ==
    [id \in {k \in DOMAIN tracks : tracks[k].missedFrames < MAX_MISSED_FRAMES}
        |-> tracks[id]]

\* a variant that evicts one call later
RemoveLostOneLater(tracks) ==
    [id \in {k \in DOMAIN tracks : ~(tracks[k].missedFrames > MAX_MISSED_FRAMES + 1)}
        |-> tracks[id]]

\* lines 68-76: remove lost tracks
RemoveLost(tracks) ==
    [id \in {k \in DOMAIN tracks : ~(tracks[k].missedFrames > MAX_MISSED_FRAMES)}
        |-> tracks[id]]

\* a variant that gives a new track the lowest id the map does not hold
NewTrackIdLowestFree(tracks, next) ==
    CHOOSE k \in 0..next : k \notin DOMAIN tracks
                             /\ \A j \in 0..(k - 1) : j \in DOMAIN tracks

\* line 86: the id of a new track
NewTrackId(tracks, next) == next

\* std::map operator[] assignment
MapPut(tracks, id, t) ==
    [k \in DOMAIN tracks \cup {id} |-> IF k = id THEN t ELSE tracks[k]]

\* lines 78-91: new tracks for the unmatched detections.  st is [tracks,
\* nextId, out, spawned]; spawned lists the <<detection index, id>> pairs
\* lines 81-89: the state after detection i, det, has become track id
\* a variant that puts the detection of a new track at the front of the list
AfterNewPrepends(st, i, det, id) ==
    [tracks  |-> MapPut(st.tracks, id,
                    [box |-> det.box, label |-> det.label,
                     confidence |-> det.score, missedFrames |-> 0, id |-> id]),
     nextId  |-> st.nextId + 1,
     out     |-> <<det>> \o st.out,
     spawned |-> Append(st.spawned, <<i, id>>)]

AfterNew(st, i, det, id) ==
    [tracks  |-> MapPut(st.tracks, id,
                    [box |-> det.box, label |-> det.label,
                     confidence |-> det.score, missedFrames |-> 0, id |-> id]),
     nextId  |-> st.nextId + 1,
     out     |-> Append(st.out, det),
     spawned |-> Append(st.spawned, <<i, id>>)]

RECURSIVE AddNew(_, _, _, _)
AddNew(newDetections, matched, i, st) ==
    IF i > Len(newDetections) THEN st
    ELSE IF matched[i] THEN AddNew(newDetections, matched, i + 1, st)
    ELSE AddNew(newDetections, matched, i + 1,
                AfterNew(st, i, newDetections[i], NewTrackId(st.tracks, st.nextId)))

\* lines 30-94: SimpleTracker::updateTracks, as [tracks, nextId, out,
\* claims, spawned]
\* the result of the call: st2 is the state after the third loop, claims
\* the matches of the first
CallResult(st2, claims) ==
    [tracks  |-> st2.tracks,
     nextId  |-> st2.nextId,
     out     |-> st2.out,
     claims  |-> claims,
     spawned |-> st2.spawned]

\* lines 68-93, st1 being the state after the loop over the tracks
AfterTrackLoop(next, newDetections, st1) ==
    CallResult(AddNew(newDetections, st1.matched, 1,
                      [tracks  |-> RemoveLost(st1.tracks),
                       nextId  |-> next,
                       out     |-> st1.out,
                       spawned |-> <<>>]),
               st1.claims)

updateTracks(fused, tracks, next, newDetections) ==
    AfterTrackLoop(next, newDetections,
        TrackLoop(fused, SortedIds(DOMAIN tracks), newDetections,
                  [tracks  |-> tracks,
                   matched |-> [i \in 1..Len(newDetections) |-> FALSE],
                   out     |-> <<>>,
                   claims  |-> <<>>]))

(***************************************************************************)
(* VisionModule::detect (visionmodule.cpp).  The raw output tensor of       *)
(* shape [1, numAttrs, numPreds] is [numAttrs, cols]: cols is the sequence  *)
(* of its columns, each [x, y, w, h, scores], where scores maps the class   *)
(* rows of the column that hold a non-zero score to that score; every       *)
(* other class row below numAttrs - 4 holds 0.                              *)
(***************************************************************************)
\* coco_labels.h is not part of the sources at hand: the label table is the
\* COCO list of 80 distinct names
COCO_CLASSES ==
    << "person", "bicycle", "car", "motorcycle", "airplane", "bus", "train",
       "truck", "boat", "traffic light", "fire hydrant", "stop sign",
       "parking meter", "bench", "bird", "cat", "dog", "horse", "sheep",
       "cow", "elephant", "bear", "zebra", "giraffe", "backpack", "umbrella",
       "handbag", "tie", "suitcase", "frisbee", "skis", "snowboard",
       "sports ball", "kite", "baseball bat", "baseball glove", "skateboard",
       "surfboard", "tennis racket", "bottle", "wine glass", "cup", "fork",
       "knife", "spoon", "bowl", "banana", "apple", "sandwich", "orange",
       "broccoli", "carrot", "hot dog", "pizza", "donut", "cake", "chair",
       "couch", "potted plant", "bed", "dining table", "toilet", "tv",
       "laptop", "mouse", "remote", "keyboard", "cell phone", "microwave",
       "oven", "toaster", "sink", "refrigerator", "book", "clock", "vase",
       "scissors", "teddy bear", "hair drier", "toothbrush" >>

\* COCO_CLASSES[classId] for an index inside the table
LabelOf(classId) == COCO_CLASSES[classId + 1]

\* data[c * numPreds + i] for class row c - 4 of a column
ScoreAt(col, c) == IF c \in DOMAIN col.scores THEN col.scores[c] ELSE 0

\* lines 136-144: the class with the highest score, as <<maxScore, classId>>,
\* scanning the class rows from c on
RECURSIVE MaxClassFrom(_, _, _, _, _)
MaxClassFrom(col, numClasses, c, maxScore, classId) ==
    IF c >= numClasses THEN <<maxScore, classId>>
    ELSE IF ScoreAt(col, c) > maxScore
         THEN MaxClassFrom(col, numClasses, c + 1, ScoreAt(col, c), c)
         ELSE MaxClassFrom(col, numClasses, c + 1, maxScore, classId)

\* a variant without the thresholds of the classes
ClassThresholdFloorOnly(classId) == CONF_THRESH

\* lines 148-165: the class-specific confidence threshold, in hundredths
ClassThreshold(classId) ==
    IF classId = 0 THEN 50
    ELSE IF classId = 56 \/ classId = 57 THEN 20
    ELSE IF classId = 59 \/ classId = 60 THEN 25
    ELSE IF classId = 61 \/ classId = 62 \/ classId = 63 THEN 20
    ELSE IF classId = 64 \/ classId = 65 THEN 25
    ELSE IF classId = 66 THEN 20
    ELSE IF classId = 67 \/ classId = 68 THEN 25
    ELSE IF classId = 73 \/ classId = 74 THEN 20
    ELSE IF classId >= 1 /\ classId <= 9 THEN 30
    ELSE IF classId >= 14 /\ classId <= 23 THEN 30
    ELSE 25

\* static_cast<int> of the quotient n / d, d > 0: truncation toward zero
TruncDiv(n, d) == IF n >= 0 THEN n \div d ELSE -((-n) \div d)

\* lines 169-183: the pixel box of a column.  scaleX = cols / 640 and
\* scaleY = rows / 640 are 2 and 1.125 for the 1280 x 720 frame, so every
\* product and difference below is exact in single precision
\* lines 180-183: the clamping of left, top, width, height
Clamped(left, top, width, height) ==
    Rect(left, top, Min(width, FrameCols - left), Min(height, FrameRows - top))

PixelBox(col) ==
    Clamped(Max(0, TruncDiv(2 * col.x * FrameCols - col.w * FrameCols, 2 * INPUT_WIDTH)),
            Max(0, TruncDiv(2 * col.y * FrameRows - col.h * FrameRows, 2 * INPUT_HEIGHT)),
            TruncDiv(col.w * FrameCols, INPUT_WIDTH),
            TruncDiv(col.h * FrameRows, INPUT_HEIGHT))

\* lines 191-207: the area ratio window of a class, as two floats
MinAreaRatio(classId) ==
    IF classId = 0 THEN FloatDiv(1, 100)
    ELSE IF classId = 64 \/ classId = 66 \/ classId = 67 THEN FloatDiv(1, 10000)
    ELSE IF classId = 56 \/ classId = 57 \/ classId = 59 THEN FloatDiv(5, 1000)
    ELSE FloatDiv(5, 10000)

MaxAreaRatio(classId) ==
    IF classId = 0 THEN FloatDiv(8, 10)
    ELSE IF classId = 64 \/ classId = 66 \/ classId = 67 THEN FloatDiv(95, 100)
    ELSE IF classId = 56 \/ classId = 57 \/ classId = 59 THEN FloatDiv(9, 10)
    ELSE FloatDiv(95, 100)

\* lines 186-188 and 209-210: the validation of a box
AreaRatioValid(areaRatio, classId) ==
    /\ FGt(areaRatio, MinAreaRatio(classId))
    /\ FGt(MaxAreaRatio(classId), areaRatio)

BoxValid(box, classId) ==
    /\ box.width > 5
    /\ box.height > 5
    /\ AreaRatioValid(FloatDiv(box.width * box.height, FrameCols * FrameRows), classId)
    /\ box.x + box.width <= FrameCols
    /\ box.y + box.height <= FrameRows

\* lines 129-224: the decoding loop.  st is [candidates, labelReads]:
\* labelReads lists the indices with which COCO_CLASSES is read (line 216)
\* lines 146-222: one column, with maxScore and classId of its best class
\* and its pixel box
DecodeColumn(st, maxScore, classId, box) ==
    IF /\ maxScore > CONF_THRESH
       /\ maxScore > ClassThreshold(classId)
       /\ BoxValid(box, classId)
    THEN [candidates |-> Append(st.candidates,
                           [box |-> box, score |-> maxScore, classId |-> classId]),
          labelReads |-> IF maxScore > 30 \/ classId # 0
                         THEN Append(st.labelReads, classId)
                         ELSE st.labelReads]
    ELSE st

DecodeBest(st, col, mc) == DecodeColumn(st, mc[1], mc[2], PixelBox(col))

RECURSIVE Decode(_, _, _)
Decode(tensor, i, st) ==
    IF i > Len(tensor.cols) THEN st
    ELSE Decode(tensor, i + 1,
                DecodeBest(st, tensor.cols[i],
                           MaxClassFrom(tensor.cols[i], tensor.numAttrs - 4, 0, 0, -1)))

\* lines 229-230: std::sort by descending score.  std::sort is not stable:
\* the order it leaves among candidates of equal score is unspecified, so
\* every ordering by non-increasing score is an outcome.  An ordering is a
\* permutation p; the sorted vector holds candidates[p[k]] at position k
SortedOrders(candidates) ==
    LET n == Len(candidates)
    IN  {p \in [1..n -> 1..n] :
            /\ \A a, b \in 1..n : a # b => p[a] # p[b]
            /\ \A a, b \in 1..n :
                  a < b => candidates[p[a]].score >= candidates[p[b]].score}

Permute(candidates, p) == [k \in 1..Len(candidates) |-> candidates[p[k]]]

\* a variant without the class-specific thresholds
NmsThresholdDefault(classId) == FloatDiv(NMS_THRESH, 100)

\* lines 243-250: the same-class suppression threshold of a class
NmsThreshold(classId) ==
    IF classId = 0 THEN FloatDiv(3, 10)
    ELSE IF classId >= 56 /\ classId <= 60 THEN FloatDiv(5, 10)
    ELSE IF classId >= 61 /\ classId <= 67 THEN FloatDiv(6, 10)
    ELSE FloatDiv(NMS_THRESH, 100)

\* a variant without the same-class rule
SuppressesCrossOnly(ci, cj) == FGt(iou(ci.box, cj.box), FloatDiv(8, 10))

\* lines 254-263: candidate ci, being kept, removes the later candidate cj
SuppressesAt(ci, cj, iouValue) ==
    IF ci.classId = cj.classId /\ FGt(iouValue, NmsThreshold(ci.classId))
    THEN TRUE
    ELSE FGt(iouValue, FloatDiv(8, 10))

\* a variant without the cross-class rule
SuppressesSameClassOnly(ci, cj) ==
    /\ ci.classId = cj.classId
    /\ FGt(iou(ci.box, cj.box), NmsThreshold(ci.classId))

Suppresses(ci, cj) == SuppressesAt(ci, cj, iou(ci.box, cj.box))

\* lines 232-266: the suppression loop over the sorted candidates.  st is
\* [removed, results, labelReads]
\* lines 237-240: the emission of a kept candidate
Emitted(results, c) ==
    IF c.classId >= 0 /\ c.classId < NumLabels
    THEN Append(results, Detection(LabelOf(c.classId), c.score, c.box))
    ELSE results

ReadsAfterEmit(labelReads, c) ==
    IF c.classId >= 0 /\ c.classId < NumLabels
    THEN Append(labelReads, c.classId)
    ELSE labelReads

\* lines 237-265: the state after the kept candidate i
NmsKeep(candidates, i, st) ==
    [removed |-> [j \in 1..Len(candidates) |->
                     IF j > i /\ ~st.removed[j]
                     THEN Suppresses(candidates[i], candidates[j])
                     ELSE st.removed[j]],
     results |-> Emitted(st.results, candidates[i]),
     labelReads |-> ReadsAfterEmit(st.labelReads, candidates[i])]

RECURSIVE Nms(_, _, _)
Nms(candidates, i, st) ==
    IF i > Len(candidates) THEN st
    ELSE IF st.removed[i] THEN Nms(candidates, i + 1, st)
    ELSE Nms(candidates, i + 1, NmsKeep(candidates, i, st))

\* A frame is [empty, runThrows, tensor]: runThrows says that session_->Run
\* throws an Ort::Exception for it; tensor is what Run returns otherwise.
\* lines 123-224: the candidates of a frame and the label reads of decoding
Candidates(frame) ==
    Decode(frame.tensor, 1, [candidates |-> <<>>, labelReads |-> <<>>])

\* lines 77-275: detect, for one outcome p of the sort, as [results,
\* labelReads]
NmsResult(st) == [results |-> st.results, labelReads |-> st.labelReads]

\* lines 229-266, dec being the outcome of decoding
SortAndSuppress(dec, p) ==
    NmsResult(Nms(Permute(dec.candidates, p), 1,
                  [removed |-> [j \in 1..Len(dec.candidates) |-> FALSE],
                   results |-> <<>>,
                   labelReads |-> dec.labelReads]))

detect(frame, p) ==
    IF frame.empty \/ frame.runThrows
    THEN [results |-> <<>>, labelReads |-> <<>>]
    ELSE SortAndSuppress(Candidates(frame), p)

\* the outcomes of the sort for a frame
DetectOrders(frame) ==
    IF frame.empty \/ frame.runThrows THEN {<<>>}
    ELSE SortedOrders(Candidates(frame).candidates)

(***************************************************************************)
(* Bounds and inputs of the model.                                         *)
(***************************************************************************)
\* the most columns of a tensor handed to detect alone
MaxCols == 3
\* the most detections of a list handed to updateTracks alone
MaxDets == 2
\* the most identities issued
MaxIds == 2
\* the most frames the frame loop captures
MaxFrames == 7
\* the most frames the frame loop captures of the moving person
MaxGeometryFrames == 4
\* the most transcripts stored
MaxTranscripts == 3
\* the most chunks the capture thread reads
MaxChunks == 5
\* the most frames the frame loop captures beside the capture thread
MaxAgentFrames == 2
\* the most updateTracks calls on the lists of shifted persons
MaxMatchCalls == 3

RECURSIVE SeqsUpTo(_, _)
SeqsUpTo(S, n) ==
    IF n = 0 THEN {<<>>}
    ELSE LET shorter == SeqsUpTo(S, n - 1)
         IN  shorter \cup {Append(q, e) : q \in {r \in shorter : Len(r) = n - 1}, e \in S}

Col(x, y, w, h, scores) == [x |-> x, y |-> y, w |-> w, h |-> h, scores |-> scores]

\* Columns in model-input coordinates.  The three person columns decode to
\* 200 x 180 boxes at left = 0, 54 and 108 of the 1280 x 720 frame: the
\* outer two overlap by IoU 92/308 < 0.3, each overlaps the middle one by
\* IoU 146/254
ColLeft    == Col(50, 320, 100, 160, 0 :> 90)
ColMiddle  == Col(77, 320, 100, 160, 0 :> 60)
ColRight   == Col(104, 320, 100, 160, 0 :> 60)
\* a chair on the middle box, with an equal person score: the first row wins
ColChair   == Col(77, 320, 100, 160, (56 :> 70) @@ (57 :> 70))
\* a class row beyond the label table, on the left box, with a person score
ColBeyond  == Col(50, 320, 100, 160, (0 :> 60) @@ (80 :> 95))
\* a box that reaches over the left and top edge of the frame
ColCorner  == Col(40, 60, 100, 160, 62 :> 40)
\* a person below its class threshold, and a box too small
ColWeak    == Col(50, 320, 100, 160, 0 :> 40)
ColTiny    == Col(300, 320, 2, 160, 0 :> 90)
\* a person a third over ColLeft's box
ColNear    == Col(100, 320, 100, 160, 0 :> 60)

ColumnPool == {ColLeft, ColMiddle, ColRight, ColChair, ColBeyond, ColCorner,
               ColWeak, ColTiny}

\* the class rows a column needs
RowsOf(col) == DOMAIN col.scores

Tensors(pool, n) ==
    {[numAttrs |-> a, cols |-> q] :
        a \in {84, 85},
        q \in {r \in SeqsUpTo(pool, n) :
                 \A k \in 1..Len(r) : \A c \in RowsOf(r[k]) : c < 84 - 4}}
    \cup
    {[numAttrs |-> 85, cols |-> q] :
        q \in {r \in SeqsUpTo(pool, n) :
                 \E k \in 1..Len(r) : \E c \in RowsOf(r[k]) : c >= 84 - 4}}

NoTensor == [numAttrs |-> 84, cols |-> <<>>]
EmptyFrame  == [empty |-> TRUE, runThrows |-> FALSE, tensor |-> NoTensor]
ThrowingFrame == [empty |-> FALSE, runThrows |-> TRUE, tensor |-> NoTensor]
FrameOf(t) == [empty |-> FALSE, runThrows |-> FALSE, tensor |-> t]

\* the frames handed to detect alone
DetectFrames ==
    {EmptyFrame, ThrowingFrame} \cup {FrameOf(t) : t \in Tensors(ColumnPool, MaxCols)}

\* the frames the camera delivers to the frame loop
CameraFrames ==
    {EmptyFrame, ThrowingFrame,
     FrameOf([numAttrs |-> 84, cols |-> <<>>]),
     FrameOf([numAttrs |-> 84, cols |-> <<ColMiddle>>]),
     FrameOf([numAttrs |-> 84, cols |-> <<ColLeft>>]),
     FrameOf([numAttrs |-> 84, cols |-> <<ColLeft, ColRight>>]),
     FrameOf([numAttrs |-> 84, cols |-> <<ColLeft, ColNear>>]),
     FrameOf([numAttrs |-> 85, cols |-> <<ColMiddle>>]),
     FrameOf([numAttrs |-> 85, cols |-> <<ColBeyond, ColMiddle>>])}

\* the frames of a camera that sees one person move by a few pixels, at odd
\* pixel positions and against the right and bottom edges of the frame
ColOddNear == Col(57, 320, 101, 160, 0 :> 90)
ColOddFar  == Col(52, 320, 101, 160, 0 :> 80)
ColEdge    == Col(600, 600, 100, 160, 0 :> 90)
ColEdgeIn  == Col(610, 600, 100, 160, 0 :> 80)
GeometryFrames ==
    {FrameOf([numAttrs |-> 84, cols |-> <<>>]),
     FrameOf([numAttrs |-> 84, cols |-> <<ColOddNear>>]),
     FrameOf([numAttrs |-> 84, cols |-> <<ColOddFar>>]),
     FrameOf([numAttrs |-> 84, cols |-> <<ColEdge>>]),
     FrameOf([numAttrs |-> 84, cols |-> <<ColEdgeIn>>]),
     FrameOf([numAttrs |-> 84, cols |-> <<ColCorner>>])}

\* one-column tensors for the decoder: a class on either side of each
\* class range, with a score on either side of each threshold, and two
\* classes with equal and with different scores
DecodeClasses == {0, 1, 9, 10, 13, 14, 23, 24, 56, 59, 79}
DecodeScores  == {0, 20, 21, 25, 26, 30, 31, 50, 51}

\* columns whose boxes have an area at and beside the ends of the area
\* windows, and a width at and beside 5: 96 x 96 is 0.01 of the frame,
\* 1024 x 720 is 0.8, 96 x 48 is 0.005, 1152 x 720 is 0.9, 1216 x 720 is 0.95
AreaColumns ==
    {Col(320, 320, w, 86, 0 :> 90) : w \in {47, 48, 49}}
    \cup {Col(640 - (w \div 2), 320, w, 640, c :> 90) :
             w \in {510, 512, 514}, c \in {0, 56}}
    \cup {Col(320, 320, 48, h, 56 :> 90) : h \in {42, 43, 44}}
    \cup {Col(640 - (w \div 2), 320, w, 640, c :> 90) :
             w \in {574, 576, 578, 606, 608, 610}, c \in {56, 64, 79}}
    \cup {Col(320, 320, w, 160, 64 :> 90) : w \in {2, 3, 4}}

DecodeColumns ==
    {Col(77, 320, 100, 160, c :> sc) : c \in DecodeClasses, sc \in DecodeScores}
    \cup AreaColumns
    \cup
    {Col(77, 320, 100, 160, (c[1] :> sc[1]) @@ (c[2] :> sc[2])) :
        c \in {<<0, 2>>, <<0, 56>>, <<2, 56>>}, sc \in {35, 60} \X {35, 60}}

DecodeFrames ==
    {FrameOf([numAttrs |-> 84, cols |-> <<col>>]) : col \in DecodeColumns}

\* the frames of the frame loop beside the capture thread
AgentFrames ==
    {EmptyFrame,
     FrameOf([numAttrs |-> 84, cols |-> <<>>]),
     FrameOf([numAttrs |-> 84, cols |-> <<ColMiddle>>])}

\* the detection lists handed to updateTracks alone
DetPool ==
    {Detection("person", 90, Rect(0, 270, 200, 180)),
     Detection("chair", 70, Rect(0, 270, 200, 180))}
DetLists == SeqsUpTo(DetPool, MaxDets)

\* a person Detection with its box at left = x
PersonAt(x, score) == Detection("person", score, Rect(x, 270, 200, 180))

\* detection lists of persons shifted against each other: the box at 54
\* overlaps those at 0 and 108 by IoU 146/254 and the one at 100 by 154/246,
\* the box at 0 overlaps the one at 100 by 100/300 and the one at 108 by
\* 92/308, the boxes at 100 and 108 overlap by 192/208
MatchLists ==
    {<<>>,
     <<PersonAt(54, 60)>>,
     <<PersonAt(0, 90), PersonAt(108, 60)>>,
     <<PersonAt(0, 90), PersonAt(100, 60)>>,
     <<PersonAt(54, 90), PersonAt(100, 60)>>,
     <<Detection("chair", 70, Rect(54, 270, 200, 180)), PersonAt(108, 60)>>}

(***************************************************************************)
(* State.                                                                  *)
(***************************************************************************)
VARIABLES
    pc,                 \* where main is: capture, detect, track, draw, exit, crashed
    fused,              \* whether the build contracts the smoothing expression
    frames,             \* the number of frames captured
    frame,              \* main's frame
    detections,         \* main's detections, the return value of detect
    labelReads,         \* the indices COCO_CLASSES was read with in the last detect
    trackedObjects,     \* SimpleTracker::trackedObjects
    nextId,             \* SimpleTracker::nextId
    smoothedDetections, \* main's smoothedDetections, the return value of updateTracks
    rendered,           \* the lists drawn for the current frame
    tracked,            \* whether updateTracks has run since the last capture
    prevTracks,         \* trackedObjects before the last updateTracks call
    prevNextId,         \* nextId before the last updateTracks call
    newDetections,      \* the argument of the last updateTracks call
    claims,             \* its matches, <<track id, detection index>>
    spawned,            \* its new tracks, <<detection index, id>>
    issued,             \* every id issued so far, in order
    isListening_,       \* AudioModule::isListening_
    shouldStop_,        \* AudioModule::shouldStop_
    isRecording_,       \* AudioModule::isRecording_
    audioBuffer_,       \* AudioModule::audioBuffer_, in chunks of one read
    transcriptQueue_,   \* AudioModule::transcriptQueue_
    transcriptCount_,   \* AudioModule::transcriptCount_
    apc,                \* where the capture thread is: none, open, read, check,
                        \* append, done
    tempBuffer,         \* the chunk the capture thread has read
    chunksRead,         \* the number of chunks read so far
    isRecording,        \* main's isRecording
    recordedAudio,      \* stopRecording's recordedAudio
    latestCommand,      \* main's latestCommand
    lastGet,            \* the last getLatestTranscript call: the queue it found
                        \* and the text it returned
    recordingFrom       \* the number of chunks read when startRecording last
                        \* set isRecording_

visionVars  == <<frame, detections, labelReads>>
trackerVars == <<trackedObjects, nextId, smoothedDetections, prevTracks,
                 prevNextId, newDetections, claims, spawned, issued>>
captureVars == <<isListening_, shouldStop_, isRecording_, audioBuffer_, apc,
                 tempBuffer, chunksRead, isRecording, recordedAudio,
                 recordingFrom>>
audioVars   == <<captureVars, transcriptQueue_, transcriptCount_,
                 latestCommand, lastGet>>
vars == <<pc, fused, frames, rendered, tracked, visionVars, trackerVars,
          audioVars>>

NoTracks == [id \in {} |-> 0]

InitCommon ==
    /\ fused \in BOOLEAN
    /\ frames = 0
    /\ detections = <<>>
    /\ labelReads = <<>>
    /\ trackedObjects = NoTracks
    /\ nextId = 0
    /\ smoothedDetections = <<>>
    /\ rendered = <<>>
    /\ tracked = FALSE
    /\ prevTracks = NoTracks
    /\ prevNextId = 0
    /\ newDetections = <<>>
    /\ claims = <<>>
    /\ spawned = <<>>
    /\ issued = <<>>
    /\ isListening_ = FALSE
    /\ shouldStop_ = FALSE
    /\ isRecording_ = FALSE
    /\ audioBuffer_ = <<>>
    /\ transcriptQueue_ = <<>>
    /\ transcriptCount_ = 0
    /\ apc = "none"
    /\ tempBuffer = 0
    /\ chunksRead = 0
    /\ recordingFrom = 0
    /\ isRecording = FALSE
    /\ recordedAudio = <<>>
    /\ latestCommand = ""
    /\ lastGet = [called |-> FALSE, queue |-> <<>>, result |-> ""]

\* main before its frame loop (lines 137-150)
Init ==
    /\ InitCommon
    /\ pc = "capture"
    /\ frame = EmptyFrame

(***************************************************************************)
(* Operations.                                                             *)
(***************************************************************************)
\* main.cpp lines 153-154: cap >> frame; an empty frame ends the loop
Capture(f) ==
    /\ pc = "capture"
    /\ frames < MaxFrames
    /\ frame' = f
    /\ frames' = frames + 1
    /\ rendered' = <<>>
    /\ tracked' = FALSE
    /\ pc' = IF f.empty THEN "exit" ELSE "detect"
    /\ UNCHANGED <<fused, detections, labelReads, trackerVars, audioVars>>

\* main.cpp line 157: vision.detect(frame).  Reading COCO_CLASSES with an
\* index beyond the table is undefined: the call goes on with whatever was
\* read, or the process dies
ReadsBeyond(reads) ==
    \E k \in 1..Len(reads) : reads[k] < 0 \/ reads[k] >= NumLabels

DetectReturns(r) ==
    /\ labelReads' = r.labelReads
    /\ \E dies \in (IF ReadsBeyond(r.labelReads) THEN BOOLEAN ELSE {FALSE}) :
         IF dies
         THEN pc' = "crashed" /\ detections' = <<>>
         ELSE pc' = "track" /\ detections' = r.results

Detect ==
    /\ pc = "detect"
    /\ \E p \in DetectOrders(frame) : DetectReturns(detect(frame, p))
    /\ UNCHANGED <<fused, frames, frame, rendered, tracked, trackerVars, audioVars>>

\* SimpleTracker::updateTracks called with dets
Committed(dets, r) ==
    /\ r.nextId <= MaxIds
    /\ tracked' = TRUE
    /\ trackedObjects' = r.tracks
    /\ nextId' = r.nextId
    /\ smoothedDetections' = r.out
    /\ prevTracks' = trackedObjects
    /\ prevNextId' = nextId
    /\ newDetections' = dets
    /\ claims' = r.claims
    /\ spawned' = r.spawned
    /\ issued' = issued \o [k \in 1..Len(r.spawned) |-> r.spawned[k][2]]

UpdateTracksOn(dets) ==
    Committed(dets, updateTracks(fused, trackedObjects, nextId, dets))

\* main.cpp line 160: tracker.updateTracks(detections)
Track ==
    /\ pc = "track"
    /\ UpdateTracksOn(detections)
    /\ pc' = "draw"
    /\ UNCHANGED <<fused, frames, rendered, visionVars, audioVars>>

\* main.cpp lines 163-243: drawDetections and the rest of the iteration;
\* ESC ends the loop
Draw(esc) ==
    /\ pc = "draw"
    /\ rendered' = <<smoothedDetections>>
    /\ pc' = IF esc THEN "exit" ELSE "capture"
    /\ UNCHANGED <<fused, frames, tracked, visionVars, trackerVars, audioVars>>

Next ==
    \/ \E f \in CameraFrames : Capture(f)
    \/ Detect
    \/ Track
    \/ \E esc \in BOOLEAN : Draw(esc)

Spec == Init /\ [][Next]_vars

\* the frame loop on the frames of the moving person
CaptureGeometry(f) ==
    /\ frames < MaxGeometryFrames
    /\ Capture(f)

NextGeometry ==
    \/ \E f \in GeometryFrames : CaptureGeometry(f)
    \/ Detect
    \/ Track
    \/ \E esc \in BOOLEAN : Draw(esc)

SpecGeometry == Init /\ [][NextGeometry]_vars

\* detect alone, on any frame
InitDetect ==
    /\ InitCommon
    /\ pc = "detect"
    /\ frame \in DetectFrames

NextDetect == Detect

SpecDetect == InitDetect /\ [][NextDetect]_vars

\* detect alone, on the one-column tensors
InitDecode ==
    /\ InitCommon
    /\ pc = "detect"
    /\ frame \in DecodeFrames

SpecDecode == InitDecode /\ [][NextDetect]_vars

\* updateTracks alone, on any sequence of detection lists
TrackerCall(dets) ==
    /\ UpdateTracksOn(dets)
    /\ UNCHANGED <<pc, fused, frames, rendered, visionVars, audioVars>>

NextTracker == \E dets \in DetLists : TrackerCall(dets)

SpecTracker == Init /\ [][NextTracker]_vars

\* updateTracks alone, on the lists of shifted persons, one call a frame
MatchCall(dets) ==
    /\ frames < MaxMatchCalls
    /\ frames' = frames + 1
    /\ UpdateTracksOn(dets)
    /\ UNCHANGED <<pc, fused, rendered, visionVars, audioVars>>

NextMatch == \E dets \in MatchLists : MatchCall(dets)

SpecMatch == Init /\ [][NextMatch]_vars


(***************************************************************************)
(* AudioModule (audio.cpp).  Audio is counted in chunks of one read of the  *)
(* capture loop, a chunk being the number of the read that produced it.     *)
(***************************************************************************)
\* audio.cpp line 10
sampleRate_ == 16000

\* line 154: the samples of one read
framesPerRead == sampleRate_ \div 10

\* lines 222-223: sampleRate_ * 0.5f
minSamples == sampleRate_ \div 2

\* the chunks a to b
ChunkRun(a, b) == [k \in 1..(b - a + 1) |-> a + k - 1]

\* recorded audio handed to processAudioBuffer: none, just too short, just
\* long enough
Recordings ==
    {<<>>, ChunkRun(1, (minSamples \div framesPerRead) - 1),
           ChunkRun(1, minSamples \div framesPerRead)}

\* the texts of a recognition, trimmed (lines 283-296)
Transcripts == {"", "go", "stop"}

\* a variant whose callback captures the tracker as well and starts the
\* tracks afresh on a command
TranscriptCallbackResetsTracks(transcript) ==
    /\ latestCommand' = transcript
    /\ trackedObjects' = NoTracks
    /\ UNCHANGED <<nextId, smoothedDetections, prevTracks, prevNextId,
                   newDetections, claims, spawned, issued>>

\* main.cpp lines 114-117: the transcript callback, which captures
\* latestCommand alone
TranscriptCallback(transcript) ==
    /\ latestCommand' = transcript
    /\ UNCHANGED trackerVars

\* lines 298-311: a non-empty transcript is stored and handed to the
\* callback
StoreTranscript(fullTranscript) ==
    /\ transcriptCount_ < MaxTranscripts
    /\ transcriptQueue_' = Append(transcriptQueue_, fullTranscript)
    /\ transcriptCount_' = transcriptCount_ + 1
    /\ TranscriptCallback(fullTranscript)

\* lines 215-315: AudioModule::processAudioBuffer; ret is what whisper_full
\* returns and fullTranscript the trimmed text of the segments
processAudioBuffer(audioData, ret, fullTranscript) ==
    IF \/ audioData = <<>>
       \/ Len(audioData) * framesPerRead < minSamples
       \/ ret # 0
       \/ fullTranscript = ""
    THEN UNCHANGED <<transcriptQueue_, transcriptCount_, latestCommand, trackerVars>>
    ELSE StoreTranscript(fullTranscript)

\* lines 317-326: AudioModule::getLatestTranscript, as [queue, result]
getLatestTranscript(queue) ==
    IF queue = <<>> THEN [queue |-> queue, result |-> ""]
    ELSE [queue |-> Tail(queue), result |-> Head(queue)]

GetLatestTranscriptReturns(r) ==
    /\ transcriptQueue_' = r.queue
    /\ lastGet' = [called |-> TRUE, queue |-> transcriptQueue_, result |-> r.result]

\* a call of getLatestTranscript
GetLatestTranscript ==
    /\ GetLatestTranscriptReturns(getLatestTranscript(transcriptQueue_))
    /\ UNCHANGED <<pc, fused, frames, rendered, tracked, visionVars, trackerVars,
                   captureVars, transcriptCount_, latestCommand>>

\* a recording is transcribed
Transcribe(audioData, ret, fullTranscript) ==
    /\ processAudioBuffer(audioData, ret, fullTranscript)
    /\ UNCHANGED <<pc, fused, frames, rendered, tracked, visionVars,
                   captureVars, lastGet>>

\* the transcript store alone: recordings transcribed and transcripts
\* retrieved in any order
NextAudio ==
    \/ \E audioData \in Recordings : \E ret \in {0, 1} : \E t \in Transcripts :
          Transcribe(audioData, ret, t)
    \/ GetLatestTranscript

SpecAudio == Init /\ [][NextAudio]_vars


(***************************************************************************)
(* The running program: main (main.cpp) beside the capture thread           *)
(* (AudioModule::audioThread).  Each action is one step of one of the two.  *)
(***************************************************************************)
mainVars == <<pc, fused, frames, rendered, tracked, visionVars, trackerVars>>

\* audio.cpp lines 54-65, called at main.cpp line 123
StartListening ==
    /\ pc = "startListening"
    /\ pc' = "capture"
    /\ IF isListening_ THEN UNCHANGED <<shouldStop_, isListening_, apc>>
       ELSE /\ shouldStop_' = FALSE
            /\ isListening_' = TRUE
            /\ apc' = "open"
    /\ UNCHANGED <<fused, frames, rendered, tracked, visionVars, trackerVars,
                   isRecording_, audioBuffer_, tempBuffer, chunksRead, recordingFrom,
                   isRecording, recordedAudio, transcriptQueue_,
                   transcriptCount_, latestCommand, lastGet>>

\* lines 115-151: the thread opens and starts the stream, or gives up
ThreadOpen(ok) ==
    /\ apc = "open"
    /\ IF ok THEN apc' = "read" /\ UNCHANGED isListening_
       ELSE apc' = "done" /\ isListening_' = FALSE
    /\ UNCHANGED <<mainVars, shouldStop_, isRecording_, audioBuffer_, tempBuffer,
                   chunksRead, recordingFrom, isRecording, recordedAudio, transcriptQueue_,
                   transcriptCount_, latestCommand, lastGet>>

\* lines 158-181: the loop condition and one read; err is a read error
\* other than an overflow
ThreadRead(err) ==
    /\ apc = "read"
    /\ IF shouldStop_ \/ err
       THEN apc' = "done" /\ UNCHANGED <<tempBuffer, chunksRead>>
       ELSE /\ chunksRead < MaxChunks
            /\ chunksRead' = chunksRead + 1
            /\ tempBuffer' = chunksRead + 1
            /\ apc' = "check"
    /\ UNCHANGED <<mainVars, isListening_, shouldStop_, isRecording_,
                   audioBuffer_, isRecording, recordedAudio, recordingFrom,
                   transcriptQueue_, transcriptCount_, latestCommand, lastGet>>

\* line 184: if (isRecording_)
ThreadCheck ==
    /\ apc = "check"
    /\ apc' = IF isRecording_ THEN "append" ELSE "read"
    /\ UNCHANGED <<mainVars, isListening_, shouldStop_, isRecording_,
                   audioBuffer_, tempBuffer, chunksRead, recordingFrom, isRecording,
                   recordedAudio, transcriptQueue_, transcriptCount_,
                   latestCommand, lastGet>>

\* lines 185-186: the chunk is appended under bufferMutex_
ThreadAppend ==
    /\ apc = "append"
    /\ audioBuffer_' = Append(audioBuffer_, tempBuffer)
    /\ apc' = "read"
    /\ UNCHANGED <<mainVars, isListening_, shouldStop_, isRecording_, tempBuffer,
                   chunksRead, recordingFrom, isRecording, recordedAudio, transcriptQueue_,
                   transcriptCount_, latestCommand, lastGet>>

CaptureAgent(f) ==
    /\ frames < MaxAgentFrames
    /\ Capture(f)

\* main.cpp line 160: main enters updateTracks
TrackEnter ==
    /\ pc = "track"
    /\ pc' = "tracking"
    /\ UNCHANGED <<fused, frames, rendered, tracked, visionVars, trackerVars,
                   audioVars>>

\* main.cpp line 160: updateTracks returns
TrackReturn ==
    /\ pc = "tracking"
    /\ UpdateTracksOn(detections)
    /\ pc' = "draw"
    /\ UNCHANGED <<fused, frames, rendered, visionVars, audioVars>>

\* main.cpp lines 163-238: the frame is drawn and shown and a key read
Show(key) ==
    /\ pc = "draw"
    /\ rendered' = <<smoothedDetections>>
    /\ pc' = IF key = " " THEN (IF isRecording THEN "stopRecording"
                                ELSE "startRecording")
             ELSE IF key = "esc" THEN "exit"
             ELSE "capture"
    /\ UNCHANGED <<fused, frames, tracked, visionVars, trackerVars, audioVars>>

\* audio.cpp lines 80-92, main.cpp lines 227-228
StartRecording ==
    /\ pc = "startRecording"
    /\ IF ~isListening_ \/ isRecording_
       THEN UNCHANGED <<audioBuffer_, isRecording_, recordingFrom>>
       ELSE /\ audioBuffer_' = <<>>
            /\ isRecording_' = TRUE
            /\ recordingFrom' = chunksRead
    /\ isRecording' = TRUE
    /\ pc' = "capture"
    /\ UNCHANGED <<fused, frames, rendered, tracked, visionVars, trackerVars,
                   isListening_, shouldStop_, apc, tempBuffer, chunksRead,
                   recordedAudio, transcriptQueue_, transcriptCount_,
                   latestCommand, lastGet>>

\* audio.cpp lines 94-98: stopRecording clears the flag
StopRecordingFlag ==
    /\ pc = "stopRecording"
    /\ IF ~isRecording_
       THEN pc' = "capture" /\ isRecording' = FALSE /\ UNCHANGED isRecording_
       ELSE pc' = "stopCopy" /\ isRecording_' = FALSE /\ UNCHANGED isRecording
    /\ UNCHANGED <<fused, frames, rendered, tracked, visionVars, trackerVars,
                   isListening_, shouldStop_, audioBuffer_, apc, tempBuffer,
                   chunksRead, recordingFrom, recordedAudio, transcriptQueue_,
                   transcriptCount_, latestCommand, lastGet>>

\* lines 101-106: the buffer is copied and cleared under bufferMutex_
StopRecordingCopy ==
    /\ pc = "stopCopy"
    /\ recordedAudio' = audioBuffer_
    /\ audioBuffer_' = <<>>
    /\ pc' = "process"
    /\ UNCHANGED <<fused, frames, rendered, tracked, visionVars, trackerVars,
                   isListening_, shouldStop_, isRecording_, apc, tempBuffer,
                   chunksRead, recordingFrom, isRecording, transcriptQueue_, transcriptCount_,
                   latestCommand, lastGet>>

\* lines 108-112, main.cpp line 231: the copy is transcribed in the caller
StopRecordingProcess(ret, fullTranscript) ==
    /\ pc = "process"
    /\ IF recordedAudio # <<>>
       THEN processAudioBuffer(recordedAudio, ret, fullTranscript)
       ELSE UNCHANGED <<transcriptQueue_, transcriptCount_, latestCommand,
                        trackerVars>>
    /\ recordedAudio' = <<>>
    /\ isRecording' = FALSE
    /\ pc' = "capture"
    /\ UNCHANGED <<fused, frames, rendered, tracked, visionVars, isListening_,
                   shouldStop_, isRecording_, audioBuffer_, apc, tempBuffer,
                   chunksRead, recordingFrom, lastGet>>

\* audio.cpp lines 67-72, called at main.cpp line 245
StopListening ==
    /\ pc = "exit"
    /\ IF ~isListening_
       THEN pc' = "end" /\ UNCHANGED <<shouldStop_, isListening_>>
       ELSE pc' = "join" /\ shouldStop_' = TRUE /\ isListening_' = FALSE
    /\ UNCHANGED <<fused, frames, rendered, tracked, visionVars, trackerVars,
                   isRecording_, audioBuffer_, apc, tempBuffer, chunksRead, recordingFrom,
                   isRecording, recordedAudio, transcriptQueue_,
                   transcriptCount_, latestCommand, lastGet>>

\* lines 73-77: captureThread_.join() returns once the thread has ended
\* and leaves captureThread_ not joinable
Join ==
    /\ pc = "join"
    /\ apc = "done"
    /\ apc' = "joined"
    /\ pc' = "end"
    /\ UNCHANGED <<fused, frames, rendered, tracked, visionVars, trackerVars,
                   isListening_, shouldStop_, isRecording_,
                   audioBuffer_, tempBuffer, chunksRead, recordingFrom, isRecording,
                   recordedAudio, transcriptQueue_, transcriptCount_,
                   latestCommand, lastGet>>

\* whether captureThread_ is joinable: a thread was started and not joined,
\* running or ended
Joinable == apc \notin {"none", "joined"}

\* the outcome of ~AudioModule (lines 15-24) and of the destructor of
\* captureThread_ after it: std::terminate if the thread is joinable
Destroyed == IF Joinable THEN "terminated" ELSE "returned"

\* main.cpp line 247: main returns and audio is destroyed.  stopListening
\* has run at line 245 and left isListening_ false, so its call at
\* audio.cpp line 16 returns at line 68
DestroyAudio ==
    /\ pc = "end"
    /\ ~isListening_
    /\ pc' = Destroyed
    /\ UNCHANGED <<fused, frames, rendered, tracked, visionVars, trackerVars,
                   audioVars>>

InitAgent ==
    /\ InitCommon
    /\ pc = "startListening"
    /\ frame = EmptyFrame

NextAgent ==
    \/ StartListening
    \/ \E ok \in BOOLEAN : ThreadOpen(ok)
    \/ \E err \in BOOLEAN : ThreadRead(err)
    \/ ThreadCheck
    \/ ThreadAppend
    \/ \E f \in AgentFrames : CaptureAgent(f)
    \/ Detect
    \/ TrackEnter
    \/ TrackReturn
    \/ \E key \in {"", " ", "esc"} : Show(key)
    \/ StartRecording
    \/ StopRecordingFlag
    \/ StopRecordingCopy
    \/ \E ret \in {0, 1} : \E t \in Transcripts : StopRecordingProcess(ret, t)
    \/ StopListening
    \/ Join
    \/ DestroyAudio

SpecAgent == InitAgent /\ [][NextAgent]_vars


(***************************************************************************)
(* Properties.                                                             *)
(***************************************************************************)
\* whether the last updateTracks call matched track id
Claimed(id) == \E k \in 1..Len(claims) : claims[k][1] = id

\* the tracks that were in the map before the last call and are in it still
Survivors == DOMAIN prevTracks \cap DOMAIN trackedObjects

\* C1: over any sequence of updateTracks calls the ids issued are 0, 1, ...,
\* M-1 in this order, M being the number of tracks created: no id is issued
\* twice, evicted or not, each track of the map carries the id it is filed
\* under, and nextId is M
IdsNeverReused ==
    /\ nextId = Len(issued)
    /\ \A k \in 1..Len(issued) : issued[k] = k - 1
    /\ \A id \in DOMAIN trackedObjects :
          /\ trackedObjects[id].id = id
          /\ \E k \in 1..Len(issued) : issued[k] = id

\* a call creates a track after the track of a lower id has been evicted
IdIssuedAfterEviction ==
    /\ spawned # <<>>
    /\ \E k \in 1..Len(issued) :
          /\ issued[k] < spawned[1][2]
          /\ issued[k] \notin DOMAIN prevTracks

\* C2: with the eviction threshold 5, a call removes a track exactly when
\* the track goes unmatched in it with 5 misses already counted, which is
\* its 6th consecutive miss; every track the map holds after a call has at
\* most 5 misses, so a track at 5 misses is retained
EvictedAtSixthMiss ==
    /\ \A id \in DOMAIN prevTracks :
          id \notin DOMAIN trackedObjects
          <=> (~Claimed(id) /\ prevTracks[id].missedFrames = MAX_MISSED_FRAMES)
    /\ \A id \in DOMAIN trackedObjects :
          /\ trackedObjects[id].missedFrames >= 0
          /\ trackedObjects[id].missedFrames <= MAX_MISSED_FRAMES

\* a call evicts a track with 5 misses while a track that reaches 5 misses
\* in the same call stays
EvictionAndRetentionAtBoundary ==
    /\ \E id \in DOMAIN prevTracks :
          /\ prevTracks[id].missedFrames = MAX_MISSED_FRAMES
          /\ id \notin DOMAIN trackedObjects
    /\ \E id \in Survivors :
          trackedObjects[id].missedFrames = MAX_MISSED_FRAMES

\* C3: for every track that was in the map before a call and is in it after,
\* missedFrames is 0 after the call exactly if the call matched the track,
\* and is the previous value plus 1 otherwise
MissesResetOrIncrement ==
    \A id \in Survivors :
        /\ trackedObjects[id].missedFrames = 0 <=> Claimed(id)
        /\ ~Claimed(id) =>
              trackedObjects[id].missedFrames = prevTracks[id].missedFrames + 1

\* a call matches a track that had misses and leaves another unmatched
MatchAfterMissesBesideMiss ==
    \E a, b \in Survivors :
        /\ Claimed(a)
        /\ prevTracks[a].missedFrames > 0
        /\ ~Claimed(b)

\* C4: within one call no detection is matched by two tracks, no track
\* matches two detections, and no matched detection becomes a new track
ClaimsOneToOne ==
    /\ \A j, k \in 1..Len(claims) :
          j # k => claims[j][1] # claims[k][1] /\ claims[j][2] # claims[k][2]
    /\ \A j \in 1..Len(claims) : \A k \in 1..Len(spawned) :
          spawned[k][1] # claims[j][2]
    /\ \A j \in 1..Len(claims) :
          /\ claims[j][1] \in DOMAIN prevTracks
          /\ claims[j][2] \in 1..Len(newDetections)

\* a track's claim on its detection
ClaimOf(id) == CHOOSE k \in 1..Len(claims) : claims[k][1] = id

\* whether track id of the map before the call could match detection i
WouldMatch(id, i) ==
    /\ prevTracks[id].label = newDetections[i].label
    /\ FGt(calculateIOU(prevTracks[id].box, newDetections[i].box), IOU_THRESHOLD)

\* a detection is matched by one track while a second track, which it fits
\* as well, goes without
ContestedDetection ==
    \E a, b \in DOMAIN prevTracks :
        /\ a # b
        /\ Claimed(a)
        /\ ~Claimed(b)
        /\ WouldMatch(b, claims[ClaimOf(a)][2])

\* the class id of a label of the table
ClassOf(label) == CHOOSE c \in 0..(NumLabels - 1) : LabelOf(c) = label

\* the suppression threshold stated for a class
StatedThreshold(classId) ==
    IF classId = 0 THEN FloatDiv(3, 10)
    ELSE IF classId \in 56..60 THEN FloatDiv(5, 10)
    ELSE IF classId \in 61..67 THEN FloatDiv(6, 10)
    ELSE FloatDiv(4, 10)

\* two Detections of one label that overlap above the label's threshold
OverThreshold(a, b) ==
    /\ a.label = b.label
    /\ FGt(iou(a.box, b.box), StatedThreshold(ClassOf(a.label)))

NmsClean(list) ==
    \A i, j \in 1..Len(list) : i < j => ~OverThreshold(list[i], list[j])

\* C5: the list detect returns holds no two Detections of one label whose
\* IoU is above the label's threshold (0.3 for person, 0.5 for the classes
\* 56-60, 0.6 for 61-67, 0.4 otherwise)
DetectOutputNmsClean ==
    pc = "track" => NmsClean(detections)

\* detect returns two overlapping Detections of one label, having removed a
\* candidate
KeptPairBesideSuppressed ==
    /\ pc = "track"
    /\ Len(detections) < Len(Candidates(frame).candidates)
    /\ \E i, j \in 1..Len(detections) :
          /\ i < j
          /\ detections[i].label = detections[j].label
          /\ Area(RectAnd(detections[i].box, detections[j].box)) > 0

\* C6, as stated: the list updateTracks returns in the pipeline holds no two
\* Detections of one label whose IoU is above the label's threshold
StabilizedOutputNmsClean ==
    pc = "draw" => NmsClean(smoothedDetections)

\* C6, as it holds: in the pipeline the list updateTracks receives holds no
\* two Detections of one label above the label's threshold, and the list it
\* returns is one entry per matched track followed by the unmatched
\* detections unchanged; only an entry of a matched track, whose box is the
\* smoothed one, can overlap another entry above the threshold
TrackerInputNmsClean ==
    pc = "draw" =>
        /\ newDetections = detections
        /\ NmsClean(newDetections)
        /\ Len(smoothedDetections) = Len(claims) + Len(spawned)
        /\ \A k \in 1..Len(spawned) :
              smoothedDetections[Len(claims) + k] = newDetections[spawned[k][1]]
        /\ \A i, j \in 1..Len(smoothedDetections) :
              (i < j /\ OverThreshold(smoothedDetections[i], smoothedDetections[j]))
              => i <= Len(claims)

\* the entry of a matched track overlaps the entry of a new track above the
\* threshold
SmoothedBoxOverlapsNewTrack ==
    /\ pc = "draw"
    /\ \E i \in 1..Len(claims) : \E k \in 1..Len(spawned) :
          OverThreshold(smoothedDetections[i],
                        smoothedDetections[Len(claims) + k])

\* a frame whose tensor does not have the shape [1, 4 + 80, P], or for which
\* the inference throws
FaultyFrame ==
    /\ ~frame.empty
    /\ frame.runThrows \/ frame.tensor.numAttrs # 4 + NumLabels

\* C7: a frame whose tensor has the wrong shape, or whose decoding fails,
\* fails as a whole: detect gives no Detections for it, it is not rendered,
\* and updateTracks does not run for it, so the tracks stay as they were
FaultyFrameFailsWhole ==
    FaultyFrame =>
        /\ pc # "detect" => detections = <<>>
        /\ rendered = <<>>
        /\ ~tracked

\* C8: an empty frame does not end the frame loop: updateTracks runs for it
\* with the empty list, each track ageing by one miss, before the loop goes
\* on to the next frame
EmptyFrameAgesTracks ==
    (frames > 0 /\ frame.empty) =>
        /\ pc # "detect"
        /\ pc \in {"draw", "capture", "exit"} =>
              /\ tracked
              /\ newDetections = <<>>
              /\ \A id \in Survivors :
                    trackedObjects[id].missedFrames = prevTracks[id].missedFrames + 1

\* C9: detect reads COCO_CLASSES only with class ids in [0, 80), whatever
\* the number of class rows of the tensor
LabelReadsInTable ==
    \A k \in 1..Len(labelReads) :
        labelReads[k] >= 0 /\ labelReads[k] < NumLabels

\* the class that wins a column
WinnerOf(col, numAttrs) == MaxClassFrom(col, numAttrs - 4, 0, 0, -1)[2]

\* the columns of a tensor whose winning class is in the table
RECURSIVE InTable(_, _)
InTable(cols, numAttrs) ==
    IF cols = <<>> THEN <<>>
    ELSE IF WinnerOf(Head(cols), numAttrs) < NumLabels
         THEN <<Head(cols)>> \o InTable(Tail(cols), numAttrs)
         ELSE InTable(Tail(cols), numAttrs)

\* a frame without the columns whose winning class is beyond the table
WithoutBeyond(f) ==
    [f EXCEPT !.tensor.cols = InTable(f.tensor.cols, f.tensor.numAttrs)]

\* what detect can return for a frame
DetectResults(f) == {detect(f, p).results : p \in DetectOrders(f)}

\* C10: a column whose winning class is beyond the label table is dropped
\* and only it: detect returns what it returns for the tensor without such
\* columns
BeyondColumnOnlyDropped ==
    pc = "track" => detections \in DetectResults(WithoutBeyond(frame))


\* the Detection a track is emitted as
EntryOf(track) == Detection(track.label, track.confidence, track.box)

\* C11: the list a call returns holds one entry for each track the call
\* matched, in the order of the matches and with the track's new state,
\* followed by one entry for each new track; a track the call did not
\* match, retained or evicted, has no entry
UnmatchedTrackNotEmitted ==
    /\ Len(smoothedDetections) = Len(claims) + Len(spawned)
    /\ \A k \in 1..Len(claims) :
          /\ claims[k][1] \in DOMAIN trackedObjects
          /\ smoothedDetections[k] = EntryOf(trackedObjects[claims[k][1]])
    /\ \A k \in 1..Len(spawned) :
          smoothedDetections[Len(claims) + k] = EntryOf(trackedObjects[spawned[k][2]])
    /\ (\A id \in DOMAIN prevTracks : ~Claimed(id)) =>
          Len(smoothedDetections) = Len(spawned)

\* a call that matches one track returns a single entry while a second
\* track goes unmatched and stays
OneMatchedOneSilent ==
    /\ Len(smoothedDetections) = 1
    /\ \E a, b \in Survivors :
          /\ Claimed(a)
          /\ ~Claimed(b)
          /\ prevTracks[a].missedFrames = 0

\* a frame whose tensor has no predictions
ZeroPredictions ==
    /\ ~frame.empty
    /\ ~frame.runThrows
    /\ frame.tensor.cols = <<>>

\* C12: for a tensor without predictions detect returns no Detection, and
\* updateTracks, called with the empty list, returns the empty list, counts
\* one more miss on every track, removes the tracks that had 5 misses,
\* creates no track and leaves nextId as it was
ZeroPredictionsAgeTracks ==
    ZeroPredictions =>
        /\ pc \in {"track", "draw"} => detections = <<>>
        /\ pc # "crashed"
        /\ tracked =>
              /\ newDetections = <<>>
              /\ smoothedDetections = <<>>
              /\ claims = <<>>
              /\ spawned = <<>>
              /\ nextId = prevNextId
              /\ DOMAIN trackedObjects =
                    {id \in DOMAIN prevTracks :
                        prevTracks[id].missedFrames < MAX_MISSED_FRAMES}
              /\ \A id \in DOMAIN trackedObjects :
                    trackedObjects[id] =
                        [prevTracks[id] EXCEPT !.missedFrames = @ + 1]

\* a frame without predictions evicts one track and ages another
ZeroPredictionsEvictAndAge ==
    /\ ZeroPredictions
    /\ tracked
    /\ \E id \in DOMAIN prevTracks : id \notin DOMAIN trackedObjects
    /\ \E id \in DOMAIN trackedObjects : trackedObjects[id].missedFrames > 0


\* 0.7 * old + 0.3 * new truncated toward zero, old and new not negative
Blend(old, new) == (7 * old + 3 * new) \div 10

BlendBox(old, new) ==
    Rect(Blend(old.x, new.x), Blend(old.y, new.y),
         Blend(old.width, new.width), Blend(old.height, new.height))

\* C13: a matched track's box becomes, field by field, 0.7 * old + 0.3 * new
\* truncated toward zero, that is (7 * old + 3 * new) div 10, its confidence
\* the detection's score, and the entry returned for it carries its label
\* and this box
MatchedBoxIsBlend ==
    \A k \in 1..Len(claims) :
        /\ trackedObjects[claims[k][1]].box =
              BlendBox(prevTracks[claims[k][1]].box, newDetections[claims[k][2]].box)
        /\ trackedObjects[claims[k][1]].confidence = newDetections[claims[k][2]].score
        /\ smoothedDetections[k] =
              Detection(prevTracks[claims[k][1]].label,
                        newDetections[claims[k][2]].score,
                        BlendBox(prevTracks[claims[k][1]].box,
                                 newDetections[claims[k][2]].box))


\* a box inside the frame
InFrame(box) ==
    /\ box.x >= 0
    /\ box.y >= 0
    /\ box.x + box.width <= FrameCols
    /\ box.y + box.height <= FrameRows

AllInFrame(list) == \A k \in 1..Len(list) : InFrame(list[k].box)

\* C14: with the frame size fixed, every box lies within the frame: the
\* box of every Candidate and Detection of detect, of every Detection
\* updateTracks returns and of every track, after any sequence of frames
BoxesInFrame ==
    /\ AllInFrame(Candidates(frame).candidates)
    /\ AllInFrame(detections)
    /\ AllInFrame(newDetections)
    /\ AllInFrame(smoothedDetections)
    /\ \A id \in DOMAIN trackedObjects : InFrame(trackedObjects[id].box)

\* a matched track's smoothed box, other than the detection's, reaches the
\* right edge of the frame
SmoothedBoxAtEdge ==
    \E k \in 1..Len(claims) :
        /\ trackedObjects[claims[k][1]].box # newDetections[claims[k][2]].box
        /\ trackedObjects[claims[k][1]].box # prevTracks[claims[k][1]].box
        /\ trackedObjects[claims[k][1]].box.x + trackedObjects[claims[k][1]].box.width
              = FrameCols


MatchedInCall ==
    {id \in DOMAIN prevTracks \cap DOMAIN trackedObjects :
        trackedObjects[id].missedFrames = 0}

\* the tracks a call created
CreatedInCall == DOMAIN trackedObjects \ DOMAIN prevTracks

\* C16: a call returns no more Detections than the tracks it matched plus
\* the tracks it created
OutputCountBounded ==
    Len(smoothedDetections) <= Cardinality(MatchedInCall) + Cardinality(CreatedInCall)

\* a call that matches a track and creates another returns two entries
OneMatchedOneCreated ==
    /\ Len(smoothedDetections) = 2
    /\ Cardinality(MatchedInCall) = 1
    /\ Cardinality(CreatedInCall) = 1


\* detection i of the last call fits track id as it was stored, with no
\* more than 5 misses, and no track of a lower id took it
Reclaimable(id, i) ==
    /\ prevTracks[id].missedFrames <= MAX_MISSED_FRAMES
    /\ WouldMatch(id, i)
    /\ \A k \in 1..Len(claims) : claims[k][2] = i => claims[k][1] >= id

\* detection i of the last call became a new track
Spawned(i) == \E k \in 1..Len(spawned) : spawned[k][1] = i

\* the IoU of detection i of the last call with track id as it was stored
StoredIOU(id, i) == calculateIOU(prevTracks[id].box, newDetections[i].box)

\* C17 as stated: every detection that fits a stored track and that no
\* track of a lower id took is matched to that track, whose misses return
\* to 0, and gets no new id
EveryFittingDetectionRejoins ==
    \A id \in DOMAIN prevTracks : \A i \in 1..Len(newDetections) :
        Reclaimable(id, i) =>
            /\ id \in DOMAIN trackedObjects
            /\ trackedObjects[id].missedFrames = 0
            /\ \E k \in 1..Len(claims) : claims[k] = <<id, i>>
            /\ ~Spawned(i)

\* C17: a stored track, whatever its misses up to 5, that some detection
\* fits which no track of a lower id took, keeps its id: it is matched, its
\* misses return to 0, and the detection it takes is the fitting one of the
\* greatest IoU, the first of the list among equal ones, which gets no new
\* id; a fitting detection it does not take is left to the later tracks
RejoinsWithBestFit ==
    \A id \in DOMAIN prevTracks :
        (\E i \in 1..Len(newDetections) : Reclaimable(id, i)) =>
            /\ id \in DOMAIN trackedObjects
            /\ trackedObjects[id].id = id
            /\ trackedObjects[id].missedFrames = 0
            /\ Claimed(id)
            /\ Reclaimable(id, claims[ClaimOf(id)][2])
            /\ ~Spawned(claims[ClaimOf(id)][2])
            /\ \A i \in 1..Len(newDetections) :
                  Reclaimable(id, i) =>
                      /\ ~FGt(StoredIOU(id, i), StoredIOU(id, claims[ClaimOf(id)][2]))
                      /\ i < claims[ClaimOf(id)][2] =>
                            FGt(StoredIOU(id, claims[ClaimOf(id)][2]), StoredIOU(id, i))

\* a track with 5 misses is matched again and no track is created
RejoinsAfterFiveMisses ==
    /\ pc = "draw"
    /\ spawned = <<>>
    /\ \E id \in Survivors :
          /\ prevTracks[id].missedFrames = MAX_MISSED_FRAMES
          /\ Claimed(id)
          /\ trackedObjects[id].missedFrames = 0


\* C19: getLatestTranscript returns the transcript stored last among those
\* not yet retrieved, and the empty string when none is stored
GetReturnsLatestStored ==
    lastGet.called =>
        lastGet.result = IF lastGet.queue = <<>> THEN ""
                         ELSE lastGet.queue[Len(lastGet.queue)]


\* C18: the tracker state changes only in the step in which the
\* updateTracks call of the frame loop returns; while that call is in
\* progress the other steps are steps of the capture thread, which leave
\* the tracker state and latestCommand as they are, and the transcript
\* callback runs in main only, inside stopRecording
TrackerTouchedByFrameLoopOnly ==
    [][/\ (trackerVars' # trackerVars) => (pc = "tracking" /\ pc' = "draw")
       /\ (pc = "tracking" /\ pc' = "tracking") =>
             UNCHANGED <<mainVars, transcriptQueue_, transcriptCount_,
                         latestCommand, recordedAudio, isRecording>>
       /\ (latestCommand' # latestCommand) => (pc = "process" /\ UNCHANGED apc)]_vars

\* an updateTracks call is in progress on a stored track while the capture
\* thread, recording, is about to append a chunk
CallInProgressBesideCapture ==
    /\ pc = "tracking"
    /\ trackedObjects # NoTracks
    /\ apc = "append"
    /\ isRecording_


\* the greatest class score of a column
StatedMax(col, numClasses) ==
    CHOOSE m \in {ScoreAt(col, c) : c \in 0..(numClasses - 1)} :
        \A c \in 0..(numClasses - 1) : ScoreAt(col, c) <= m

\* the lowest class that has it
StatedWinner(col, numClasses) ==
    CHOOSE c \in 0..(numClasses - 1) :
        /\ ScoreAt(col, c) = StatedMax(col, numClasses)
        /\ \A d \in 0..(c - 1) : ScoreAt(col, d) < StatedMax(col, numClasses)

\* the confidence a class must exceed, in hundredths: the threshold stated
\* for the class or, where that is lower, the global floor
StatedConfidence(classId) ==
    IF classId = 0 THEN 50
    ELSE IF classId \in 1..9 \/ classId \in 14..23 THEN 30
    ELSE CONF_THRESH

\* cand is the candidate of column col as stated
CandidateOfColumn(cand, col, numClasses) ==
    /\ cand.classId = StatedWinner(col, numClasses)
    /\ cand.score = StatedMax(col, numClasses)
    /\ cand.score > 0
    /\ cand.score > CONF_THRESH
    /\ cand.score > StatedConfidence(cand.classId)
    /\ cand.box = PixelBox(col)

\* C20: every candidate of a frame is the candidate of one of the columns:
\* its class is the lowest class with the greatest score of the column and
\* that score exceeds the floor 0.25 and the threshold of the class; a
\* column without a positive score gives none
CandidatesPassThresholds ==
    pc = "track" =>
        /\ \A k \in 1..Len(Candidates(frame).candidates) :
              \E j \in 1..Len(frame.tensor.cols) :
                  CandidateOfColumn(Candidates(frame).candidates[k],
                                    frame.tensor.cols[j],
                                    frame.tensor.numAttrs - 4)
        /\ \A k \in 1..Len(detections) :
              \E j \in 1..Len(frame.tensor.cols) :
                  /\ detections[k].score =
                        StatedMax(frame.tensor.cols[j], frame.tensor.numAttrs - 4)
                  /\ detections[k].score >
                        StatedConfidence(StatedWinner(frame.tensor.cols[j],
                                                      frame.tensor.numAttrs - 4))

\* a column whose two equal scores pass is a candidate of the lower class
\* and is detected
LowerOfEqualScoresDetected ==
    /\ pc = "track"
    /\ Len(detections) = 1
    /\ Len(Candidates(frame).candidates) = 1
    /\ \E c, d \in DOMAIN frame.tensor.cols[1].scores :
          /\ c < d
          /\ frame.tensor.cols[1].scores[c] = frame.tensor.cols[1].scores[d]
          /\ Candidates(frame).candidates[1].classId = c
          /\ detections[1].score = frame.tensor.cols[1].scores[c]


\* the area window stated for a class, as <<min, max>> in ten-thousandths
\* of the frame area
StatedWindow(classId) ==
    IF classId = 0 THEN <<100, 8000>>
    ELSE IF classId \in {56, 57, 59} THEN <<50, 9000>>
    ELSE IF classId \in {64, 66, 67} THEN <<1, 9500>>
    ELSE <<5, 9500>>

\* the area of a box is inside the closed window win of the frame area,
\* which is a multiple of 100
InClosedWindow(box, win) ==
    /\ box.width * box.height * 100 >= win[1] * ((FrameCols * FrameRows) \div 100)
    /\ box.width * box.height * 100 <= win[2] * ((FrameCols * FrameRows) \div 100)

\* a column passed the two confidence gates
PassedGates(col, numClasses) ==
    /\ StatedMax(col, numClasses) > CONF_THRESH
    /\ StatedMax(col, numClasses) > StatedConfidence(StatedWinner(col, numClasses))

\* C21: a column that passed both confidence gates is rejected if and only
\* if its clipped width or height is at most 5 or the ratio of its area to
\* the frame area is outside the closed window of its class; a box whose
\* ratio is exactly an end of the window is kept
AreaWindowClosed ==
    (/\ pc = "track"
     /\ Len(frame.tensor.cols) = 1
     /\ PassedGates(frame.tensor.cols[1], frame.tensor.numAttrs - 4))
    => (Candidates(frame).candidates = <<>>
        <=> \/ PixelBox(frame.tensor.cols[1]).width <= 5
            \/ PixelBox(frame.tensor.cols[1]).height <= 5
            \/ ~InClosedWindow(PixelBox(frame.tensor.cols[1]),
                               StatedWindow(StatedWinner(frame.tensor.cols[1],
                                                         frame.tensor.numAttrs - 4))))


\* the pixel rectangle of a column before clipping: left, top, width and
\* height after scaling and truncation
UnclippedBox(col) ==
    Rect(TruncDiv(2 * col.x * FrameCols - col.w * FrameCols, 2 * INPUT_WIDTH),
         TruncDiv(2 * col.y * FrameRows - col.h * FrameRows, 2 * INPUT_HEIGHT),
         TruncDiv(col.w * FrameCols, INPUT_WIDTH),
         TruncDiv(col.h * FrameRows, INPUT_HEIGHT))

\* the intersection of a rectangle with the frame
WithinFrame(r) ==
    Rect(Max(0, r.x), Max(0, r.y),
         Min(r.x + r.width, FrameCols) - Max(0, r.x),
         Min(r.y + r.height, FrameRows) - Max(0, r.y))

\* C22: the box of every candidate, and so of every Detection, is the
\* intersection of the unclipped pixel rectangle of its column with the
\* frame, also when the unclipped left or top is negative
BoxIsIntersectionWithFrame ==
    pc = "track" =>
        /\ \A k \in 1..Len(Candidates(frame).candidates) :
              \E j \in 1..Len(frame.tensor.cols) :
                  Candidates(frame).candidates[k].box
                      = WithinFrame(UnclippedBox(frame.tensor.cols[j]))
        /\ \A k \in 1..Len(detections) :
              \E j \in 1..Len(frame.tensor.cols) :
                  detections[k].box = WithinFrame(UnclippedBox(frame.tensor.cols[j]))


\* the ordering by descending score that keeps the decode order among equal
\* scores
DecodeOrder(candidates) ==
    CHOOSE p \in SortedOrders(candidates) :
        \A a, b \in 1..Len(candidates) :
            (a < b /\ candidates[p[a]].score = candidates[p[b]].score) => p[a] < p[b]

\* C23: suppression takes the candidates by descending score and, among
\* equal scores, in decode order: detect returns what the suppression loop
\* gives on that ordering, so of two overlapping candidates of equal score
\* the one decoded first survives
SuppressionInDecodeOrder ==
    (pc = "track" /\ ~frame.empty /\ ~frame.runThrows) =>
        detections = detect(frame, DecodeOrder(Candidates(frame).candidates)).results


\* C24: the list detect returns holds no two Detections, of one label or of
\* two, whose IoU is above 0.8
NoPairAboveCrossCeiling ==
    pc = "track" =>
        \A i, j \in 1..Len(detections) :
            i < j => ~FGt(iou(detections[i].box, detections[j].box), FloatDiv(8, 10))

\* of three candidates, two of different classes with IoU above 0.8, detect
\* returns two Detections
CrossClassPairReduced ==
    /\ pc = "track"
    /\ Len(detections) = 2
    /\ Len(Candidates(frame).candidates) = 3
    /\ \E a, b \in 1..3 :
          /\ Candidates(frame).candidates[a].classId # Candidates(frame).candidates[b].classId
          /\ FGt(iou(Candidates(frame).candidates[a].box,
                     Candidates(frame).candidates[b].box), FloatDiv(8, 10))


\* candidate ci suppresses the later candidate cj as stated
StatedSuppresses(ci, cj) ==
    \/ ci.classId = cj.classId
       /\ FGt(iou(ci.box, cj.box), StatedThreshold(ci.classId))
    \/ FGt(iou(ci.box, cj.box), FloatDiv(8, 10))

\* K is the set of the positions of the sorted candidates that stay: a
\* candidate stays if and only if no earlier one that stays suppresses it
GreedySurvivors(sorted, K) ==
    \A k \in 1..Len(sorted) :
        k \in K <=> ~\E i \in K : i < k /\ StatedSuppresses(sorted[i], sorted[k])

ValidClass(c) == c.classId >= 0 /\ c.classId < NumLabels

\* the Detections of the candidates at the positions of kept, in order
DetectionsAt(sorted, kept) ==
    [m \in 1..Len(kept) |->
        Detection(LabelOf(sorted[kept[m]].classId), sorted[kept[m]].score,
                  sorted[kept[m]].box)]

\* the positions of K with a valid class, ascending
ValidKept(sorted, K) ==
    SelectSeq([k \in 1..Len(sorted) |-> k],
              LAMBDA k : k \in K /\ ValidClass(sorted[k]))

\* dets is what greedy suppression over the survivors gives on sorted, the
\* first candidate being emitted
GreedyOn(sorted, dets) ==
    /\ \E K \in SUBSET (1..Len(sorted)) :
          /\ GreedySurvivors(sorted, K)
          /\ dets = DetectionsAt(sorted, ValidKept(sorted, K))
    /\ Len(sorted) >= 1 =>
          /\ Len(dets) >= 1
          /\ dets[1].score = sorted[1].score
          /\ dets[1].box = sorted[1].box

\* C25: for the order the sort left, a candidate with a valid class is
\* missing from the list detect returns if and only if an earlier candidate
\* that was not removed itself suppresses it; a removed candidate
\* suppresses none, and the first candidate of the order is always emitted
GreedyOverSurvivors ==
    (pc = "track" /\ ~frame.empty /\ ~frame.runThrows) =>
        \E p \in DetectOrders(frame) :
            GreedyOn(Permute(Candidates(frame).candidates, p), detections)


\* detection i of the last call has the label of track id, an IoU above 0.3
\* with its stored box, and was not taken by a track of a lower id
Fits(id, i) ==
    /\ WouldMatch(id, i)
    /\ \A k \in 1..Len(claims) : claims[k][2] = i => claims[k][1] >= id

\* the detection that fits track id with the greatest IoU, the first of
\* the list among equal ones
BestFit(id) ==
    CHOOSE i \in 1..Len(newDetections) :
        /\ Fits(id, i)
        /\ \A j \in 1..Len(newDetections) :
              Fits(id, j) =>
                  /\ ~FGt(StoredIOU(id, j), StoredIOU(id, i))
                  /\ j < i => FGt(StoredIOU(id, i), StoredIOU(id, j))

\* C26: the matches of a call are made in ascending order of the track id;
\* a track takes none if no detection fits it, and otherwise the one that
\* fits it with the greatest IoU, the lowest index among equal ones, where
\* a detection a lower id took fits no more
MatchesGreedyBestFit ==
    /\ \A k, l \in 1..Len(claims) : k < l => claims[k][1] < claims[l][1]
    /\ \A k \in 1..Len(claims) : claims[k][1] \in DOMAIN prevTracks
    /\ \A id \in DOMAIN prevTracks :
          IF \E i \in 1..Len(newDetections) : Fits(id, i)
          THEN Claimed(id) /\ claims[ClaimOf(id)][2] = BestFit(id)
          ELSE ~Claimed(id)

\* a track takes the second detection of the list, which fits it better
\* than the first
SecondFitsBetter ==
    \E id \in DOMAIN prevTracks :
        /\ Claimed(id)
        /\ claims[ClaimOf(id)][2] = 2
        /\ Fits(id, 1)
        /\ FGt(StoredIOU(id, 2), StoredIOU(id, 1))

\* the detections of the last call that no track took, in input order
RECURSIVE UnconsumedFrom(_)
UnconsumedFrom(i) ==
    IF i > Len(newDetections) THEN <<>>
    ELSE IF \E k \in 1..Len(claims) : claims[k][2] = i
         THEN UnconsumedFrom(i + 1)
    ELSE <<i>> \o UnconsumedFrom(i + 1)

\* the track a detection starts with identity id
FreshTrack(det, id) ==
    [box |-> det.box, label |-> det.label, confidence |-> det.score,
     missedFrames |-> 0, id |-> id]

\* C27: the detections no track took become new tracks, one each and in
\* input order; the k-th of them gets the id the counter had before the
\* call plus k - 1, the counter ends that many higher, the new track is in
\* the map after the call with 0 misses and the box, label and score of
\* its detection, so it was neither aged, matched nor evicted, and the
\* detection itself follows the entries of the matched tracks in the list
\* returned
UnmatchedDetectionsSpawnInOrder ==
    /\ Len(spawned) = Len(UnconsumedFrom(1))
    /\ nextId = prevNextId + Len(spawned)
    /\ Len(smoothedDetections) = Len(claims) + Len(spawned)
    /\ \A k \in 1..Len(spawned) :
          /\ spawned[k][1] = UnconsumedFrom(1)[k]
          /\ spawned[k][2] = prevNextId + k - 1
          /\ spawned[k][2] \notin DOMAIN prevTracks
          /\ ~Claimed(spawned[k][2])
          /\ spawned[k][2] \in DOMAIN trackedObjects
          /\ trackedObjects[spawned[k][2]] =
                FreshTrack(newDetections[spawned[k][1]], spawned[k][2])
          /\ smoothedDetections[Len(claims) + k] = newDetections[spawned[k][1]]
    /\ DOMAIN trackedObjects \ DOMAIN prevTracks =
          {spawned[k][2] : k \in 1..Len(spawned)}

\* a call matches the second detection of its list and starts a track for
\* the first, which it returns after the entry of the matched track
SpawnedListedAfterMatched ==
    /\ Len(claims) = 1
    /\ Len(spawned) = 1
    /\ claims[1][2] = 2
    /\ spawned[1][1] = 1
    /\ smoothedDetections[2] = newDetections[1]

\* C28: after every call, whatever the lists so far, each track of the map
\* has between 0 and 5 misses, is filed under its own id, and has an id
\* below the counter, and the counter is not below its value before the
\* call
TrackStoreInvariant ==
    /\ \A id \in DOMAIN trackedObjects :
          /\ 0 <= trackedObjects[id].missedFrames
          /\ trackedObjects[id].missedFrames <= MAX_MISSED_FRAMES
          /\ trackedObjects[id].id = id
          /\ id < nextId
    /\ prevNextId <= nextId

\* a call leaves a track at 5 misses and starts a new track, so the
\* counter has grown
FiveMissesBesideNewTrack ==
    /\ prevNextId < nextId
    /\ \E id \in Survivors :
          /\ trackedObjects[id].missedFrames = MAX_MISSED_FRAMES
          /\ id + 1 < nextId

\* the one-to-one mappings of the positions of the list returned onto the
\* indices of the list passed
Correspondences ==
    {f \in [1..Len(smoothedDetections) -> 1..Len(newDetections)] :
        \A j, k \in 1..Len(smoothedDetections) : j # k => f[j] # f[k]}

\* whether a track took detection i in the last call
Consumed(i) == \E k \in 1..Len(claims) : claims[k][2] = i

\* C29: a call returns as many Detections as it was passed, and they
\* correspond one to one to the detections passed so that label and score
\* are those of the detection; the box is that of the detection as well
\* unless a track took the detection, and then it is the box the track has
\* after the call
OutputCorrespondsToInput ==
    /\ Len(smoothedDetections) = Len(newDetections)
    /\ \E f \in Correspondences :
          \A k \in 1..Len(smoothedDetections) :
              /\ smoothedDetections[k].label = newDetections[f[k]].label
              /\ smoothedDetections[k].score = newDetections[f[k]].score
              /\ IF Consumed(f[k])
                 THEN \E c \in 1..Len(claims) :
                          /\ claims[c][2] = f[k]
                          /\ claims[c][1] \in DOMAIN trackedObjects
                          /\ smoothedDetections[k].box =
                                trackedObjects[claims[c][1]].box
                 ELSE smoothedDetections[k].box = newDetections[f[k]].box

\* a call passed two detections returns the second first, with the box of
\* the track that took it and not its own, and then the first unchanged
MatchedBoxReplacedOrderChanged ==
    /\ Len(newDetections) = 2
    /\ Len(smoothedDetections) = 2
    /\ Consumed(2)
    /\ ~Consumed(1)
    /\ smoothedDetections[1].box # newDetections[2].box
    /\ smoothedDetections[1].score = newDetections[2].score
    /\ newDetections[1].score # newDetections[2].score
    /\ smoothedDetections[2] = newDetections[1]

\* C30: a track that a call keeps without matching it differs from what it
\* was before the call in missedFrames alone, which is one higher; every
\* track a call keeps, matched or not, has the id and the label it had
\* before the call, and so, ids being issued once, those it was created
\* with
UnmatchedTrackOnlyAges ==
    \A id \in Survivors :
        /\ trackedObjects[id].id = prevTracks[id].id
        /\ trackedObjects[id].label = prevTracks[id].label
        /\ ~Claimed(id) =>
              /\ trackedObjects[id].box = prevTracks[id].box
              /\ trackedObjects[id].confidence = prevTracks[id].confidence
              /\ trackedObjects[id] =
                    [prevTracks[id] EXCEPT !.missedFrames = @ + 1]

\* a call moves the box of the track it matches and sets its confidence
\* while a second track goes unmatched and stays
MatchedMovesBesideUnmatched ==
    \E a, b \in Survivors :
        /\ Claimed(a)
        /\ trackedObjects[a].box # prevTracks[a].box
        /\ trackedObjects[a].confidence # prevTracks[a].confidence
        /\ ~Claimed(b)
        /\ trackedObjects[b].missedFrames = 1

\* whether v lies between a and b, ends included, and is a where both agree
BetweenInputs(v, a, b) ==
    /\ Min(a, b) <= v
    /\ v <= Max(a, b)
    /\ a = b => v = a

\* C31: after a match each of x, y, width and height of the track lies
\* between the value the track had and the value of the detection it took,
\* ends included, and a field in which the two agree keeps its value, so a
\* track matched to its own box keeps the box
SmoothedBetweenInputs ==
    \A k \in 1..Len(claims) :
        /\ claims[k][1] \in DOMAIN trackedObjects
        /\ BetweenInputs(trackedObjects[claims[k][1]].box.x,
                         prevTracks[claims[k][1]].box.x,
                         newDetections[claims[k][2]].box.x)
        /\ BetweenInputs(trackedObjects[claims[k][1]].box.y,
                         prevTracks[claims[k][1]].box.y,
                         newDetections[claims[k][2]].box.y)
        /\ BetweenInputs(trackedObjects[claims[k][1]].box.width,
                         prevTracks[claims[k][1]].box.width,
                         newDetections[claims[k][2]].box.width)
        /\ BetweenInputs(trackedObjects[claims[k][1]].box.height,
                         prevTracks[claims[k][1]].box.height,
                         newDetections[claims[k][2]].box.height)
        /\ prevTracks[claims[k][1]].box = newDetections[claims[k][2]].box
              => trackedObjects[claims[k][1]].box = prevTracks[claims[k][1]].box

\* a match moves the x of a track to a value strictly between the old one
\* and that of the detection while the y, equal in both, stays
SmoothedStrictlyBetween ==
    \E k \in 1..Len(claims) :
        /\ Min(prevTracks[claims[k][1]].box.x, newDetections[claims[k][2]].box.x)
              < trackedObjects[claims[k][1]].box.x
        /\ trackedObjects[claims[k][1]].box.x
              < Max(prevTracks[claims[k][1]].box.x, newDetections[claims[k][2]].box.x)
        /\ prevTracks[claims[k][1]].box.y = newDetections[claims[k][2]].box.y
        /\ trackedObjects[claims[k][1]].box.y = prevTracks[claims[k][1]].box.y
        /\ prevTracks[claims[k][1]].box.y % 10 # 0

\* C32: in every interleaving of main and the capture thread, the one in
\* which the thread gives up on a device or stream error and clears
\* isListening_ included, the thread that startListening started has been
\* joined when the AudioModule is destroyed: captureThread_ is not joinable
\* then and the program returns from main
CaptureThreadJoinedBeforeDestroyed ==
    /\ pc \in {"returned", "terminated"} => ~Joinable
    /\ pc # "terminated"

\* C33: in every interleaving of startRecording, stopRecording and the
\* capture loop, the audio a stopRecording call hands to processAudioBuffer
\* holds only chunks the capture thread read after the startRecording
\* before it set isRecording_, in the order they were read
RecordingHoldsOwnChunksOnly ==
    pc = "process" =>
        /\ \A k \in 1..Len(recordedAudio) :
              /\ recordedAudio[k] > recordingFrom
              /\ recordedAudio[k] <= chunksRead
        /\ \A j, k \in 1..Len(recordedAudio) :
              j < k => recordedAudio[j] < recordedAudio[k]

==========================================================================
